---- MODULE Spec2Model ----
(***************************************************************************)
(* save_video element of sophon-stream: per-channel trigger counting,      *)
(* recording sessions with aggregated pending events, alarm reporting and  *)
(* type resolution, modelled from                                          *)
(*   src/element/tools/save_video/src/save_video.cc                        *)
(*   src/element/tools/save_video/include/save_video.h                     *)
(***************************************************************************)
EXTENDS Integers, Sequences, FiniteSets, TLC

VARIABLES
    json,       \* the configuration object handed to initInternal
    cfg,        \* configuration members of SaveVideo set by initInternal
    channels_,  \* std::unordered_map<int, ChannelState>
    now,        \* the clock (steady_clock / system_clock), in seconds
    last,       \* what the most recent doWork invocation did
    streak,     \* per channel and class: most recent consecutive frames with the class
    pat,        \* per channel: progress along the frame pattern P,P,A,P,P,P
    rt_dets,    \* resolveType: the detection list of the last call
    rt_out,     \* resolveType: {} before any call, then {the value returned}
    pc,         \* per execution slot: position inside doWork
    seen,       \* channel ids of the frames doWork has processed
    disk,       \* the files under save_dir_
    cleanup,    \* cleanupLoop: its position and what its last cycle did
    mu_path,    \* makeUrl: the argument of the last call
    mu_out      \* makeUrl: {} before any call, then {the string returned}

vars == <<json, cfg, channels_, now, last, streak, pat, rt_dets, rt_out, pc, seen,
          disk, cleanup, mu_path, mu_out>>
hkVars == <<disk, cleanup>>
urlVars == <<mu_path, mu_out>>

----------------------------------------------------------------------------
(* Bounds of the model *)

MaxTime == 2        \* the clock runs from 0 to MaxTime
MaxOver == 1        \* a consecutive-hit counter is not driven beyond threshold + MaxOver
MaxDets == 2        \* detections per frame
MaxFiles == 3       \* files under save_dir_

(* Program constants *)

DefaultFps == 25            \* ChannelState::fps
DefaultRecordSeconds == 10  \* SaveVideo::record_seconds_
DefaultMinTrigger == 1      \* SaveVideo::global_min_trigger_frames_
DefaultCleanupInterval == 300   \* SaveVideo::cleanup_interval_seconds_
MinCleanupInterval == 30        \* initInternal: std::max(30, ...)

----------------------------------------------------------------------------
(* Values *)

ClassIds == {5, 7}                  \* class ids detections carry in frames
DetIds == {-1, 5, 7}                \* -1: an invalid class id
TypeDetIds == {-1, 5, 7, 9}         \* class ids offered to resolveType
ChannelIds == {0}                   \* channel ids of the input stream

Det(c) == [isNull |-> FALSE, mClassify |-> c]
NullDet == [isNull |-> TRUE, mClassify |-> 0]

SeqsUpTo(S, n) == UNION {[1..k -> S] : k \in 0..n}

Range(s) == {s[i] : i \in 1..Len(s)}

Perms(S) == {s \in [1..Cardinality(S) -> S] : Range(s) = S}

EmptyMap == [c \in {} |-> 0]

\* std::unordered_map::operator[] read of a possibly missing key
Get(m, k) == IF k \in DOMAIN m THEN m[k] ELSE 0

\* a file path: <root>/ch_<ch>/<ts>[_cls<cls>]_type<type>.<ext>; cls = -1: base name
Path(ch, ts, cls, type, ext) ==
    [ch |-> ch, ts |-> ts, cls |-> cls, type |-> type, ext |-> ext]
NoPath == [ch |-> -1, ts |-> -1, cls |-> -1, type |-> 0, ext |-> ""]

\* std::string as a sequence of tokens: "/", a piece of text without "/", or the part
\* "ch_<ch>/<file name>" of a file path p; the empty string is <<>>
Sep == [s |-> "/", p |-> NoPath]
Seg(text) == [s |-> text, p |-> NoPath]
Below(p) == [s |-> "", p |-> p]
DataDir == <<Sep, Seg("data")>>
FilesUrl == <<Seg("http://x/files")>>

\* ChannelState, default constructed
NewChannelState ==
    [recording |-> FALSE,
     record_end_tp |-> 0,
     writer |-> FALSE,
     fps |-> DefaultFps,
     width |-> 0,
     height |-> 0,
     pending_video_path |-> NoPath,
     per_class_consecutive_frames |-> EmptyMap,
     pending_events |-> <<>>,
     suppressed_classes |-> {}]

----------------------------------------------------------------------------
(* Configuration: the JSON object handed to initInternal *)

MtfAbsent == [kind |-> "absent", int |-> 0, map |-> EmptyMap]
MtfInt(n) == [kind |-> "int", int |-> n, map |-> EmptyMap]
MtfMap(f) == [kind |-> "map", int |-> 0, map |-> f]

TyAbsent == [kind |-> "absent", int |-> 0, map |-> EmptyMap, str |-> ""]
TyInt(n) == [kind |-> "int", int |-> n, map |-> EmptyMap, str |-> ""]
TyMap(f) == [kind |-> "map", int |-> 0, map |-> f, str |-> ""]
TyStr(s) == [kind |-> "string", int |-> 0, map |-> EmptyMap, str |-> s]
TyOther == [kind |-> "other", int |-> 0, map |-> EmptyMap, str |-> ""]

\* record_seconds: {} when the key is absent, {n} when it is n
Json(tc, mtf, rs, ty, url) ==
    [trigger_classes |-> tc, min_trigger_frames |-> mtf, record_seconds |-> rs,
     type |-> ty, server_url_ok |-> url, save_dir |-> DataDir]

Max(a, b) == IF a >= b THEN a ELSE b

\* initInternal, min_trigger_frames: the global threshold
ParseGlobalMin(mtf) ==
    IF mtf.kind = "int" THEN Max(1, mtf.int) ELSE DefaultMinTrigger

\* initInternal, min_trigger_frames: the per-class thresholds
ParsePerClassMin(mtf) ==
    IF mtf.kind = "map"
    THEN [c \in DOMAIN mtf.map |-> Max(1, mtf.map[c])]
    ELSE EmptyMap

\* initInternal, record_seconds
ParseRecordSeconds(rs) ==
    IF rs = {} THEN DefaultRecordSeconds ELSE Max(1, CHOOSE n \in rs : TRUE)

\* initInternal, type: fixed_type_ ({}: no value), use_class_id_type_, type_map_
ParseType(tv) ==
    IF tv.kind = "int"
    THEN [fixed_type_ |-> {tv.int}, use_class_id_type_ |-> FALSE, type_map_ |-> EmptyMap]
    ELSE IF tv.kind = "map"
    THEN [fixed_type_ |-> {}, use_class_id_type_ |-> FALSE, type_map_ |-> tv.map]
    ELSE IF tv.kind = "string" /\ tv.str \in {"class_id", "classid", "label"}
    THEN [fixed_type_ |-> {}, use_class_id_type_ |-> TRUE, type_map_ |-> EmptyMap]
    ELSE [fixed_type_ |-> {}, use_class_id_type_ |-> FALSE, type_map_ |-> EmptyMap]

\* nlohmann::json::contains
Has(j, key) == key \in DOMAIN j

\* initInternal, retention_days
ParseRetentionDays(j) ==
    IF Has(j, "retention_days") THEN Max(0, j.retention_days) ELSE 0

\* initInternal, retention_max_gb
ParseRetentionMaxGb(j) ==
    IF Has(j, "retention_max_gb") THEN Max(0, j.retention_max_gb) ELSE 0

\* initInternal, cleanup_interval_seconds
ParseCleanupInterval(j) ==
    IF Has(j, "cleanup_interval_seconds")
    THEN Max(MinCleanupInterval, j.cleanup_interval_seconds)
    ELSE DefaultCleanupInterval

\* initInternal, video_url_field
ParseVideoUrlField(j) ==
    IF Has(j, "video_url_field") /\ j.video_url_field \in {"safetyUrl", "brakeUrl"}
    THEN j.video_url_field
    ELSE "safetyUrl"

\* initInternal: the members of SaveVideo after a successful initialisation
InitInternal(j) ==
    [save_dir_ |-> j.save_dir,
     base_file_url_ |-> IF Has(j, "base_file_url") THEN j.base_file_url ELSE <<>>,
     video_url_field_ |-> ParseVideoUrlField(j),
     retention_days_ |-> ParseRetentionDays(j),
     retention_max_gb_ |-> ParseRetentionMaxGb(j),
     cleanup_interval_seconds_ |-> ParseCleanupInterval(j),
     trigger_classes_ |-> j.trigger_classes,
     global_min_trigger_frames_ |-> ParseGlobalMin(j.min_trigger_frames),
     per_class_min_trigger_frames_ |-> ParsePerClassMin(j.min_trigger_frames),
     record_seconds_ |-> ParseRecordSeconds(j.record_seconds),
     fixed_type_ |-> ParseType(j.type).fixed_type_,
     use_class_id_type_ |-> ParseType(j.type).use_class_id_type_,
     type_map_ |-> ParseType(j.type).type_map_,
     endpoint_ |-> j.server_url_ok]

\* the type settings offered to initInternal
TypeJsons ==
    {TyAbsent, TyInt(3), TyInt(0), TyMap([c \in {7} |-> 2]), TyMap(EmptyMap),
     TyStr("class_id"), TyStr("label"), TyStr("other"), TyOther}

\* the configurations the element is run under
MainJsons ==
    {[video_url_field |-> "videoUrl"] @@ Json({}, MtfAbsent, {1}, TyAbsent, TRUE),
     [base_file_url |-> FilesUrl, video_url_field |-> "brakeUrl"]
        @@ Json({5}, MtfInt(3), {2}, TyMap([c \in {7} |-> 2]), TRUE),
     Json({5, 7}, MtfMap([c \in {5} |-> 2]), {0}, TyInt(3), FALSE)}

----------------------------------------------------------------------------
(* resolveType *)

TheOr(S, dflt) == IF S = {} THEN dflt ELSE CHOOSE x \in S : TRUE

\* variant: the first non-null detection is taken whatever its id
FirstValid_NoSkip(dets) ==
    IF \A i \in 1..Len(dets) : dets[i].isNull THEN {}
    ELSE {dets[CHOOSE i \in 1..Len(dets) :
                  /\ ~dets[i].isNull
                  /\ \A k \in 1..(i - 1) : dets[k].isNull].mClassify}

\* the first detection, in list order, that is non-null with id >= 0: {} if none
RECURSIVE FirstValid(_)
FirstValid(dets) ==
    IF dets = <<>> THEN {}
    ELSE IF ~Head(dets).isNull /\ Head(dets).mClassify >= 0
         THEN {Head(dets).mClassify}
         ELSE FirstValid(Tail(dets))

\* variant: only the first valid detection is looked up in the mapping
FirstMapped_Head(m, dets) ==
    IF FirstValid(dets) # {} /\ TheOr(FirstValid(dets), 0) \in DOMAIN m
    THEN {m[TheOr(FirstValid(dets), 0)]}
    ELSE {}

\* the mapped value of the first valid detection whose id is a key of m: {} if none
RECURSIVE FirstMapped(_, _)
FirstMapped(m, dets) ==
    IF dets = <<>> THEN {}
    ELSE IF ~Head(dets).isNull /\ Head(dets).mClassify >= 0
            /\ Head(dets).mClassify \in DOMAIN m
         THEN {m[Head(dets).mClassify]}
         ELSE FirstMapped(m, Tail(dets))

\* variant: the class of a valid detection is preferred to the fixed type
resolveType_DetFirst(c, dets) ==
    IF FirstValid(dets) # {} THEN TheOr(FirstValid(dets), 0)
    ELSE TheOr(c.fixed_type_, 0)

resolveType(c, dets) ==
    IF c.fixed_type_ # {} THEN TheOr(c.fixed_type_, 0)
    ELSE IF c.use_class_id_type_ THEN TheOr(FirstValid(dets), 0)
    ELSE IF DOMAIN c.type_map_ # {}
    THEN IF FirstMapped(c.type_map_, dets) # {}
         THEN TheOr(FirstMapped(c.type_map_, dets), 0)
         ELSE TheOr(FirstValid(dets), 0)
    ELSE TheOr(FirstValid(dets), 0)

----------------------------------------------------------------------------
(* doWork: the trigger counters *)

\* doWork, hasTarget
hasTarget(c, dets) ==
    IF c.trigger_classes_ # {}
    THEN \E i \in 1..Len(dets) :
            ~dets[i].isNull /\ dets[i].mClassify \in c.trigger_classes_
    ELSE dets # <<>>

\* variant: every class id of the frame is counted, valid and wanted or not
FrameClassIds_Unfiltered(c, dets) ==
    {dets[i].mClassify : i \in {j \in 1..Len(dets) : ~dets[j].isNull}}

\* doWork, frame_class_ids: one entry per class however many detections carry it
RECURSIVE FrameClassIds(_, _)
FrameClassIds(c, dets) ==
    IF dets = <<>> THEN {}
    ELSE LET det == Head(dets)
             rest == FrameClassIds(c, Tail(dets))
         IN  IF det.isNull THEN rest
             ELSE IF det.mClassify < 0 THEN rest
             ELSE IF c.trigger_classes_ = {} \/ det.mClassify \in c.trigger_classes_
                  THEN {det.mClassify} \cup rest
                  ELSE rest

\* doWork, need: the per-class threshold if configured, else the global one
Need(c, cid) ==
    IF cid \in DOMAIN c.per_class_min_trigger_frames_
    THEN c.per_class_min_trigger_frames_[cid]
    ELSE c.global_min_trigger_frames_

\* doWork, cnt++ for every class of frame_class_ids
CountHits(m, ids) ==
    [k \in (DOMAIN m) \cup ids |-> IF k \in ids THEN Get(m, k) + 1 ELSE m[k]]

\* doWork: the counter of cid goes from below its threshold to at or above it
Crosses(c, m, cid) ==
    Get(m, cid) + 1 >= Need(c, cid) /\ Get(m, cid) < Need(c, cid)

\* the iteration orders of frame_class_ids that the call can tell apart: every order when
\* two or more classes reach their threshold, one order otherwise
IterationOrders(c, st, ids) ==
    IF Cardinality({cid \in ids : Crosses(c, st.per_class_consecutive_frames, cid)
                                    /\ cid \notin st.suppressed_classes}) >= 2
    THEN Perms(ids)
    ELSE {CHOOSE order \in Perms(ids) : TRUE}

\* doWork, newly_reached_classes, listed in the iteration order of frame_class_ids
NewlyReached(c, st, order) ==
    SelectSeq(order,
              LAMBDA cid : Crosses(c, st.per_class_consecutive_frames, cid)
                           /\ cid \notin st.suppressed_classes)

\* doWork, cids_to_reset: tracked classes missing from the frame go back to zero
ResetAbsent(c, m, ids) ==
    [k \in DOMAIN m |->
        IF (c.trigger_classes_ = {} \/ k \in c.trigger_classes_) /\ k \notin ids
        THEN 0 ELSE m[k]]

\* variant: a frame without target leaves the counters as they are
ResetNoTarget_Keep(c, m) == m

\* doWork, no target in the frame
ResetNoTarget(c, m) ==
    IF c.trigger_classes_ # {}
    THEN [k \in (DOMAIN m) \cup c.trigger_classes_ |->
            IF k \in c.trigger_classes_ THEN 0 ELSE m[k]]
    ELSE EmptyMap

\* doWork: per_class_consecutive_frames after the counting block
UpdateCounters(c, m, dets) ==
    IF hasTarget(c, dets)
    THEN ResetAbsent(c, CountHits(m, FrameClassIds(c, dets)), FrameClassIds(c, dets))
    ELSE ResetNoTarget(c, m)

----------------------------------------------------------------------------
(* doWork: the recording session *)

PendingEvent(cid, type, img, dt) ==
    [class_id |-> cid, type |-> type, img_path |-> img, datetime_str |-> dt]

\* one call of postAlarm
Post(img, video, dt, type) ==
    [imgPath |-> img, videoPath |-> video, datetime_str |-> dt, resolved_type |-> type]

\* variant: a class is left out as soon as it has fired, suppressed or not
ClassesToAdd_NoneLeft(st, newly) ==
    SelectSeq(newly, LAMBDA cid : ~(cid >= 0))

\* doWork, classes_to_add
ClassesToAdd(st, newly) ==
    SelectSeq(newly, LAMBDA cid : ~(cid >= 0 /\ cid \in st.suppressed_classes))

\* startRecording: mFrameRate when st.fps is not positive
FpsOf(st, rate) ==
    IF st.fps > 0 THEN st.fps
    ELSE IF rate[2] # 0 THEN Max(1, rate[1] \div Max(1, rate[2]))
    ELSE DefaultFps

\* startRecording; res is what the file system and the video writer answer, t its clock.
\* An exception of create_directories leaves the state alone; one of VideoWriter::open
\* comes after width, height, fps and writer were assigned and is caught without reset
startRecording(c, st, obj, res, t) ==
    IF res = "throw" THEN [st |-> st, ok |-> FALSE]
    ELSE IF obj.width <= 0 \/ obj.height <= 0 THEN [st |-> st, ok |-> FALSE]
    ELSE LET sized == [st EXCEPT !.width = obj.width, !.height = obj.height,
                                 !.fps = FpsOf(st, obj.rate)]
         IN  IF res = "open_throw"
             THEN [st |-> [sized EXCEPT !.writer = TRUE], ok |-> FALSE]
             ELSE IF res = "open_fail"
             THEN [st |-> [sized EXCEPT !.writer = FALSE], ok |-> FALSE]
             ELSE [st |-> [sized EXCEPT !.writer = TRUE, !.recording = TRUE,
                                        !.record_end_tp = t + c.record_seconds_],
                   ok |-> TRUE]

\* stopRecording
stopRecording(st) == [st EXCEPT !.writer = FALSE, !.recording = FALSE]

\* variant: the event is recorded but its class is not suppressed
AppendEvent_NoSuppress(st, ev) ==
    [st EXCEPT !.pending_events = Append(@, ev)]

\* doWork: pending_events.push_back(ev); suppressed_classes.insert(cid)
AppendEvent(st, ev) ==
    [st EXCEPT !.pending_events = Append(@, ev),
               !.suppressed_classes = @ \cup {ev.class_id}]

RECURSIVE AppendEvents(_, _)
AppendEvents(st, evs) ==
    IF evs = <<>> THEN st
    ELSE AppendEvents(AppendEvent(st, Head(evs)), Tail(evs))

\* doWork: the snapshot paths of a frame that opened a session (first one: base name)
StartEvents(ch, ts, type, adds) ==
    [i \in 1..Len(adds) |->
        PendingEvent(adds[i], type,
                     Path(ch, ts, IF i = 1 THEN -1 ELSE adds[i], type, "jpg"), ts)]

\* doWork: the snapshot paths of classes firing while the session is open
MoreEvents(ch, ts, type, adds) ==
    [i \in 1..Len(adds) |->
        PendingEvent(adds[i], type, Path(ch, ts, adds[i], type, "jpg"), ts)]

\* doWork: reports of a frame whose recording could not be opened
FailPosts(ch, ts, type, adds) ==
    [i \in 1..Len(adds) |-> Post(Path(ch, ts, -1, type, "jpg"), NoPath, ts, type)]

\* variant: every firing frame opens a segment
Opens_Always(st) == TRUE

\* doWork, "if (!st.recording)": a firing frame opens a segment only on an idle channel
Opens(st) == ~st.recording

\* doWork, "if (!newly_reached_classes.empty())": the channel state, the reports made,
\* the segment files opened and whether opening one failed
Session(c, st, ch, obj, newly, ts, res, t) ==
    IF newly = <<>> THEN [st |-> st, posts |-> <<>>, opened |-> {}, failed |-> FALSE]
    ELSE LET type == resolveType(c, obj.dets)
             adds == ClassesToAdd(st, newly)
             vidPath == Path(ch, ts, -1, type, "mp4")
         IN  IF Opens(st)
             THEN LET r == startRecording(c, st, obj, res, t)
                      cleared == [r.st EXCEPT !.pending_video_path = vidPath,
                                              !.pending_events = <<>>,
                                              !.suppressed_classes = {}]
                  IN  IF ~r.ok
                      THEN [st |-> cleared, posts |-> FailPosts(ch, ts, type, adds),
                            opened |-> {}, failed |-> TRUE]
                      ELSE [st |-> AppendEvents(cleared, StartEvents(ch, ts, type, adds)),
                            posts |-> <<>>, opened |-> {vidPath}, failed |-> FALSE]
             ELSE [st |-> AppendEvents(st, MoreEvents(ch, ts, type, adds)),
                   posts |-> <<>>, opened |-> {}, failed |-> FALSE]

\* variant: only the first event of a finished segment is reported
FinalPosts_FirstOnly(st) ==
    [i \in 1..(IF st.pending_events = <<>> THEN 0 ELSE 1) |->
        Post(st.pending_events[i].img_path, st.pending_video_path,
             st.pending_events[i].datetime_str, st.pending_events[i].type)]

\* doWork: reports of the events of a finished segment, in the order of the list
FinalPosts(st) ==
    [i \in 1..Len(st.pending_events) |->
        Post(st.pending_events[i].img_path, st.pending_video_path,
             st.pending_events[i].datetime_str, st.pending_events[i].type)]

\* variant: finalize also resets the consecutive-hit counters
Finalize_ResetCounters(st, now_tp) ==
    IF st.recording /\ now_tp >= st.record_end_tp
    THEN [st |-> [stopRecording(st) EXCEPT !.pending_events = <<>>,
                                           !.suppressed_classes = {},
                                           !.per_class_consecutive_frames = EmptyMap],
          posts |-> FinalPosts(st),
          removed |-> IF st.pending_events = <<>> /\ st.pending_video_path # NoPath
                      THEN {st.pending_video_path} ELSE {},
          flushed |-> st.pending_events,
          finalized |-> TRUE]
    ELSE [st |-> st, posts |-> <<>>, removed |-> {}, flushed |-> <<>>,
          finalized |-> FALSE]

\* variant: the segment file is removed at every finalize
Finalize_AlwaysRemove(st, now_tp) ==
    IF st.recording /\ now_tp >= st.record_end_tp
    THEN [st |-> [stopRecording(st) EXCEPT !.pending_events = <<>>,
                                           !.suppressed_classes = {}],
          posts |-> FinalPosts(st),
          removed |-> {st.pending_video_path},
          flushed |-> st.pending_events,
          finalized |-> TRUE]
    ELSE [st |-> st, posts |-> <<>>, removed |-> {}, flushed |-> <<>>,
          finalized |-> FALSE]

\* variant: a recording channel is finalized on its next frame, deadline or not
Finalize_AtOnce(st, now_tp) ==
    IF st.recording
    THEN [st |-> [stopRecording(st) EXCEPT !.pending_events = <<>>,
                                           !.suppressed_classes = {}],
          posts |-> FinalPosts(st),
          removed |-> IF st.pending_events = <<>> /\ st.pending_video_path # NoPath
                      THEN {st.pending_video_path} ELSE {},
          flushed |-> st.pending_events,
          finalized |-> TRUE]
    ELSE [st |-> st, posts |-> <<>>, removed |-> {}, flushed |-> <<>>,
          finalized |-> FALSE]

\* doWork, "if (st.recording)": close the segment once now_tp has reached the deadline
Finalize(st, now_tp) ==
    IF st.recording /\ now_tp >= st.record_end_tp
    THEN [st |-> [stopRecording(st) EXCEPT !.pending_events = <<>>,
                                           !.suppressed_classes = {}],
          posts |-> FinalPosts(st),
          removed |-> IF st.pending_events = <<>> /\ st.pending_video_path # NoPath
                      THEN {st.pending_video_path} ELSE {},
          flushed |-> st.pending_events,
          finalized |-> TRUE]
    ELSE [st |-> st, posts |-> <<>>, removed |-> {}, flushed |-> <<>>,
          finalized |-> FALSE]

----------------------------------------------------------------------------
(* Inputs *)

\* mWidth, mHeight and mFrameRate (number, denominator) of a frame
Shapes == {<<0, 2, <<30, 1>>>>, <<2, 0, <<30, 1>>>>, <<2, 2, <<30, 1>>>>, <<4, 2, <<0, 0>>>>}
\* the shape of a frame whose size the element does not read
AnyShape == <<2, 2, <<30, 1>>>>
\* create_directories throws, VideoWriter::open throws, returns false, returns true
OpenResults == {"throw", "open_throw", "open_fail", "ok"}
Outcomes == {"no_response", "bad_status", "ok", "exception"}   \* httplib Post
Delays == {0, 1}     \* seconds between now_tp and the clock read of startRecording
Slots == {0, 1}      \* dataPipeId: the execution slots of the hosting pipeline

Dets(ids) == SeqsUpTo({Det(c) : c \in ids}, MaxDets)

\* the detection lists of the frames fed to doWork
FrameDets == Dets(DetIds)

Frame(ch, dets, shape) ==
    [kind |-> "frame", ch |-> ch, dets |-> dets, width |-> shape[1],
     height |-> shape[2], rate |-> shape[3]]

\* the qualifying classes of a frame: valid ids passing the trigger filter
Qualifying(c, dets) ==
    {k \in ClassIds :
        /\ k >= 0
        /\ c.trigger_classes_ = {} \/ k \in c.trigger_classes_
        /\ \E i \in 1..Len(dets) : dets[i] = Det(k)}

\* presence of class 5 in the first six frames of a channel: P, P, A, P, P, P
Pattern == <<TRUE, TRUE, FALSE, TRUE, TRUE, TRUE>>

NoLast ==
    [op |-> "init", ch |-> -1, fired |-> <<>>, blocked |-> {}, opened |-> {},
     openFailed |-> FALSE, posted |-> <<>>, removed |-> {}, flushed |-> <<>>,
     finalized |-> FALSE, pushed |-> <<>>, frame |-> <<>>]

\* variant: the object is not pushed when the recording could not be opened
pushOutputData_NotOnFailure(kind, ch, failed) ==
    IF failed THEN <<>>
    ELSE <<[kind |-> kind, ch |-> ch,
            mFilter |-> IF kind = "eos" THEN "true"
                        ELSE IF kind = "frame" THEN "false" ELSE "as it came"]>>

\* doWork: the objects handed to pushOutputData, the popped object of the given kind
\* with mFilter as doWork leaves it: set, cleared, or untouched
pushOutputData(kind, ch, failed) ==
    <<[kind |-> kind, ch |-> ch,
       mFilter |-> IF kind = "eos" THEN "true"
                   ELSE IF kind = "frame" THEN "false" ELSE "as it came"]>>

StateOf(ch) == IF ch \in DOMAIN channels_ THEN channels_[ch] ELSE NewChannelState

\* fs::path operator/ : a separator is added unless the left side is empty or ends in one
Join(a, b) ==
    IF a = <<>> THEN b
    ELSE IF a[Len(a)] = Sep THEN a \o b
    ELSE a \o <<Sep>> \o b

\* the string doWork builds for the file p: save_dir_ / "ch_<ch>" / <file name>
Str(c, p) == IF p = NoPath THEN <<>> ELSE Join(c.save_dir_, <<Below(p)>>)

\* fs::relative(s, root) for s under root, and for the empty path (which gives the
\* empty path); doWork hands makeUrl no other string
Relative(s, root) ==
    LET r == IF root # <<>> /\ root[Len(root)] = Sep
             THEN SubSeq(root, 1, Len(root) - 1) ELSE root
    IN  IF Len(s) > Len(r) + 1 /\ SubSeq(s, 1, Len(r)) = r /\ s[Len(r) + 1] = Sep
        THEN SubSeq(s, Len(r) + 2, Len(s))
        ELSE <<>>

\* what fs::relative does inside makeUrl
RelResults == {"ok", "throw"}

\* makeUrl
makeUrl(c, file_abs_path, rel) ==
    IF c.base_file_url_ = <<>> THEN file_abs_path
    ELSE LET relp == IF c.save_dir_ # <<>> /\ rel = "ok"
                     THEN Relative(file_abs_path, c.save_dir_)
                     ELSE file_abs_path
         IN  IF c.base_file_url_[Len(c.base_file_url_)] = Sep
             THEN c.base_file_url_ \o relp
             ELSE c.base_file_url_ \o <<Sep>> \o relp

\* no message: postAlarm returned before building one
NoMsg ==
    [type |-> 0, safetyUrl |-> <<>>, brakeUrl |-> <<>>, datatime |-> 0, imgUrl |-> <<>>]

\* variant: the video URL is written to both fields
postAlarm_BothFields(c, call, rel) ==
    [call |-> call, sent |-> c.endpoint_,
     msg |-> IF c.endpoint_
             THEN [type |-> call.resolved_type,
                   safetyUrl |-> makeUrl(c, Str(c, call.videoPath), rel),
                   brakeUrl |-> makeUrl(c, Str(c, call.videoPath), rel),
                   datatime |-> call.datetime_str,
                   imgUrl |-> makeUrl(c, Str(c, call.imgPath), rel)]
             ELSE NoMsg]

\* postAlarm up to the Post: nothing is sent without an endpoint
postAlarm(c, call, rel) ==
    [call |-> call, sent |-> c.endpoint_,
     msg |-> IF c.endpoint_
             THEN [type |-> call.resolved_type,
                   safetyUrl |-> IF c.video_url_field_ = "safetyUrl"
                                 THEN makeUrl(c, Str(c, call.videoPath), rel) ELSE <<>>,
                   brakeUrl |-> IF c.video_url_field_ = "safetyUrl"
                                THEN <<>> ELSE makeUrl(c, Str(c, call.videoPath), rel),
                   datatime |-> call.datetime_str,
                   imgUrl |-> makeUrl(c, Str(c, call.imgPath), rel)]
             ELSE NoMsg]

\* a slot outside doWork
Idle == [at |-> "idle", ch |-> -1]

----------------------------------------------------------------------------
(* cleanupLoop: the files under save_dir_ and the two passes of one cycle *)

Files == 1..MaxFiles

\* a regular file: size in GiB, last-write time in days
File(size, ext, mtime) ==
    [present |-> TRUE, size |-> size, ext |-> ext, mtime |-> mtime]

\* sizes and extensions of the files on disk
FileKinds == {<<2, "mp4">>, <<1, "jpg">>, <<0, "jpeg">>, <<2, "txt">>}
Mtimes == {0, 1}
Disks == [Files -> {File(k[1], k[2], m) : k \in FileKinds, m \in Mtimes}]
NoDisk == [f \in {} |-> 0]

\* the extension filter of both passes, on a regular file that exists
IsTarget(fl) == fl.present /\ fl.ext \in {"mp4", "jpg", "jpeg"}

\* fs::file_size on error: static_cast<uintmax_t>(-1), above every size
BadSize == -1

\* what the file system does to one file during a pass
NoFault == [file |-> 0, kind |-> "none", visited |-> {}]
FileFault(f, kind) == [file |-> f, kind |-> kind, visited |-> {}]
\* recursive_directory_iterator throws after the files in visited
DirThrow(visited) == [file |-> 0, kind |-> "dir_throw", visited |-> visited]
Hits(fault, f, kind) == fault.file = f /\ fault.kind = kind

AgeFaults(d) ==
    {NoFault}
    \cup {FileFault(f, k) : f \in {g \in Files : IsTarget(d[g])},
                           k \in {"mtime_unreadable", "remove_fails", "vanished"}}
    \cup {DirThrow(1..k) : k \in 0..(MaxFiles - 1)}

QuotaFaults(d) ==
    {NoFault}
    \cup {FileFault(f, k) : f \in {g \in Files : IsTarget(d[g])},
                           k \in {"size_unreadable", "mtime_unreadable", "vanished",
                                  "remove_fails", "size_unreadable_at_delete",
                                  "vanished_at_delete"}}
    \cup {DirThrow({})}

\* a file removed from the directory
Gone(d, S) == [f \in DOMAIN d |-> IF f \in S THEN [d[f] EXCEPT !.present = FALSE] ELSE d[f]]

RECURSIVE SumSizes(_, _)
SumSizes(d, S) ==
    IF S = {} THEN 0
    ELSE LET f == CHOOSE g \in S : TRUE IN d[f].size + SumSizes(d, S \ {f})

NoAge ==
    [ran |-> FALSE, aborted |-> FALSE, fault |-> NoFault, before |-> NoDisk,
     deleted |-> {}]

\* cleanupLoop, the age pass: files last written before the cutoff are removed
AgePass(d, c, now_tp, fault) ==
    LET cutoff == now_tp - c.retention_days_
        d1 == Gone(d, {f \in Files : Hits(fault, f, "vanished")})
        visit == IF fault.kind = "dir_throw" THEN fault.visited ELSE Files
        del == {f \in visit : /\ IsTarget(d1[f])
                              /\ ~Hits(fault, f, "mtime_unreadable")
                              /\ d1[f].mtime < cutoff
                              /\ ~Hits(fault, f, "remove_fails")}
    IN  [disk |-> Gone(d1, del),
         pass |-> [ran |-> TRUE, aborted |-> fault.kind = "dir_throw",
                   fault |-> fault, before |-> d, deleted |-> del]]

NoQuota ==
    [ran |-> FALSE, aborted |-> FALSE, fault |-> NoFault, before |-> NoDisk,
     scanned |-> 0, files |-> <<>>, attempted |-> <<>>, deleted |-> <<>>,
     total_bytes |-> 0]

\* std::sort with "a.second < b.second": any order with ascending last-write times
SortedOrders(d, S) ==
    {o \in Perms(S) : \A i, k \in 1..Len(o) : i < k => d[o[i]].mtime <= d[o[k]].mtime}

\* cleanupLoop, the deleting loop of the quota pass over the sorted files
RECURSIVE QuotaLoop(_, _, _, _, _, _, _)
QuotaLoop(order, d, total, max, fault, attempted, deleted) ==
    IF order = <<>>
    THEN [disk |-> d, total_bytes |-> total, attempted |-> attempted,
          deleted |-> deleted]
    ELSE LET f == Head(order)
             exists == d[f].present /\ ~Hits(fault, f, "vanished_at_delete")
             sz == IF exists /\ ~Hits(fault, f, "size_unreadable_at_delete")
                   THEN d[f].size ELSE BadSize
             ec == exists /\ Hits(fault, f, "remove_fails")
             d2 == [d EXCEPT ![f].present = ec]
             t2 == IF ~ec /\ sz # 0
                   THEN IF sz = BadSize \/ sz > total THEN 0 ELSE total - sz
                   ELSE total
             att == Append(attempted, f)
             del == IF exists /\ ~ec THEN Append(deleted, f) ELSE deleted
         IN  IF t2 <= max
             THEN [disk |-> d2, total_bytes |-> t2, attempted |-> att, deleted |-> del]
             ELSE QuotaLoop(Tail(order), d2, t2, max, fault, att, del)

\* the files the scan of the quota pass adds to total_bytes
Counted(d, fault) ==
    {f \in Files : /\ IsTarget(d[f])
                   /\ ~Hits(fault, f, "vanished")
                   /\ ~Hits(fault, f, "size_unreadable")}

\* the files the scan of the quota pass puts in its vector
Listed(d, fault) == {f \in Counted(d, fault) : ~Hits(fault, f, "mtime_unreadable")}

\* cleanupLoop, the quota pass; order is the vector after std::sort
QuotaPass(d, c, fault, order) ==
    LET d1 == Gone(d, {f \in Files : Hits(fault, f, "vanished")})
        total == SumSizes(d1, Counted(d, fault))
        loop == IF total > c.retention_max_gb_
                THEN QuotaLoop(order, d1, total, c.retention_max_gb_, fault, <<>>, <<>>)
                ELSE [disk |-> d1, total_bytes |-> total, attempted |-> <<>>,
                      deleted |-> <<>>]
    IN  IF fault.kind = "dir_throw"
        THEN [disk |-> d, pass |-> [NoQuota EXCEPT !.ran = TRUE, !.aborted = TRUE,
                                                   !.fault = fault, !.before = d]]
        ELSE [disk |-> loop.disk,
              pass |-> [ran |-> TRUE, aborted |-> FALSE, fault |-> fault, before |-> d,
                        scanned |-> total, files |-> order,
                        attempted |-> loop.attempted, deleted |-> loop.deleted,
                        total_bytes |-> loop.total_bytes]]

\* cleanupLoop before initInternal has started the thread
NoCleanup ==
    [at |-> "off", running |-> FALSE, slept |-> 0,
     age |-> NoAge, quota |-> NoQuota, i |-> 0, late |-> 0, joined |-> FALSE]

----------------------------------------------------------------------------
(* Actions *)

InitCommon ==
    /\ channels_ = [ch \in {} |-> NewChannelState]
    /\ now = 0
    /\ last = NoLast
    /\ streak = [ch \in ChannelIds |-> [k \in ClassIds |-> 0]]
    /\ pat = [ch \in ChannelIds |-> IF Need(cfg, 5) = 3 THEN 0 ELSE -1]
    /\ rt_dets = <<>>
    /\ rt_out = {}
    /\ pc = [s \in Slots |-> Idle]
    /\ seen = {}
    /\ disk = NoDisk
    /\ cleanup = NoCleanup
    /\ mu_path = <<>>
    /\ mu_out = {}

\* variant: the map holds the state of the channel of the current frame only
WithChannel_Alone(m, ch, st) == [c \in {ch} |-> st]

\* variant: the writes through st land in every entry of the map
WithChannel_Shared(m, ch, st) == [c \in (DOMAIN m) \cup {ch} |-> st]

\* doWork, "auto& st = channels_[ch]" and the writes through st: the entry of ch is
\* created if the map has none, the other entries stay
WithChannel(m, ch, st) ==
    [c \in (DOMAIN m) \cup {ch} |-> IF c = ch THEN st ELSE m[c]]

\* mChannelIdInternal of the objects that arrive: the channels the ghost counters follow
InputChannels == DOMAIN streak

Init ==
    /\ json \in MainJsons
    /\ cfg = InitInternal(json)
    /\ InitCommon

\* postAlarm, cli.Post and what follows: every transport outcome is only logged, an
\* exception is caught; what the call leaves behind does not depend on the outcome
cliPost(alarm, outcome) == alarm

\* doWork on a frame that is not end-of-stream; the outcomes of fs::relative and of the
\* transport are drawn for the alarms of the call, equal results counted once
DoWorkOn(ch, dets, shapes, results) ==
    \E st0 \in {StateOf(ch)}, ids \in {FrameClassIds(cfg, dets)},
       qual \in {Qualifying(cfg, dets)} :
      /\ \A k \in ids : Get(st0.per_class_consecutive_frames, k) < Need(cfg, k) + MaxOver
      /\ \A k \in qual : streak[ch][k] < Need(cfg, k) + MaxOver
      /\ \E order \in IterationOrders(cfg, st0, ids) :
         \E st1 \in {[st0 EXCEPT !.per_class_consecutive_frames =
                        UpdateCounters(cfg, st0.per_class_consecutive_frames, dets)]},
            newly \in {IF hasTarget(cfg, dets)
                       THEN NewlyReached(cfg, st0, order) ELSE <<>>} :
         \E shape \in (IF newly # <<>> /\ ~st1.recording THEN shapes ELSE {AnyShape}) :
         \E res \in (IF newly # <<>> /\ ~st1.recording /\ shape[1] > 0 /\ shape[2] > 0
                     THEN results ELSE {"ok"}) :
         \E d \in (IF newly # <<>> /\ ~st1.recording /\ shape[1] > 0 /\ shape[2] > 0
                      /\ res = "ok"
                   THEN {e \in Delays : now + e <= MaxTime} ELSE {0}) :
         \E s2 \in {Session(cfg, st1, ch, Frame(ch, dets, shape), newly, now, res,
                            now + d)} :
         \E s3 \in {Finalize(s2.st, now)} :
         \E posts \in {s2.posts \o s3.posts} :
         \E rel \in (IF cfg.endpoint_ /\ posts # <<>> /\ cfg.base_file_url_ # <<>>
                     THEN RelResults ELSE {"ok"}) :
         \E alarms \in {[i \in 1..Len(posts) |-> postAlarm(cfg, posts[i], rel)]} :
         \E posted \in {[i \in 1..Len(posts) |-> cliPost(alarms[i], outcome)] :
                          outcome \in (IF cfg.endpoint_ /\ posts # <<>>
                                       THEN Outcomes ELSE {"ok"})} :
           /\ channels_' = WithChannel(channels_, ch, s3.st)
           /\ now' = now + d
           /\ last' = [op |-> "frame", ch |-> ch, fired |-> newly,
                       blocked |-> {k \in ids :
                                      /\ Crosses(cfg, st0.per_class_consecutive_frames, k)
                                      /\ k \in st0.suppressed_classes},
                       opened |-> s2.opened,
                       openFailed |-> s2.failed,
                       posted |-> posted,
                       removed |-> s3.removed,
                       flushed |-> s3.flushed,
                       finalized |-> s3.finalized,
                       frame |-> IF s2.opened # {} THEN shape ELSE <<>>,
                       pushed |-> pushOutputData("frame", ch, s2.failed)]
           /\ streak' = [streak EXCEPT ![ch] =
                           [k \in ClassIds |-> IF k \in qual THEN @[k] + 1 ELSE 0]]
           /\ pat' = [pat EXCEPT ![ch] =
                        IF @ \in 0..(Len(Pattern) - 1) /\ (5 \in qual) = Pattern[@ + 1]
                        THEN @ + 1 ELSE -1]
           /\ seen' = seen \cup {ch}
           /\ UNCHANGED <<json, cfg, rt_dets, rt_out, pc, hkVars, urlVars>>

\* what doWork reads of the detections of a frame: the classes counted, the target test
\* and the resolved type
ReadOfDets(c, dets) ==
    <<FrameClassIds(c, dets), Qualifying(c, dets), hasTarget(c, dets), resolveType(c, dets)>>

\* one detection list for each thing doWork can read of the lists of D
OneOfEach(c, D) ==
    {CHOOSE dets \in D : ReadOfDets(c, dets) = r : r \in {ReadOfDets(c, dets) : dets \in D}}

\* doWork on a frame of any channel, with any detections, shape and open result; lists
\* of detections that doWork cannot tell apart are taken once
DoWorkFrame ==
    \E ch \in InputChannels, dets \in OneOfEach(cfg, FrameDets) :
      DoWorkOn(ch, dets, Shapes, OpenResults)

\* doWork on an object without a frame or with an end-of-stream frame: the object is
\* passed through (when popInputData returns nothing, doWork returns and nothing changes)
DoWorkPass ==
    \E ch \in InputChannels, kind \in {"noframe", "eos"} :
      /\ last' = [NoLast EXCEPT !.op = kind, !.ch = ch,
                                !.pushed = pushOutputData(kind, ch, FALSE)]
      /\ UNCHANGED <<json, cfg, channels_, now, streak, pat, rt_dets, rt_out, pc, seen, hkVars, urlVars>>

\* time passes
Tick ==
    /\ now < MaxTime
    /\ now' = now + 1
    /\ UNCHANGED <<json, cfg, channels_, last, streak, pat, rt_dets, rt_out, pc, seen, hkVars, urlVars>>

Next == DoWorkFrame \/ DoWorkPass \/ Tick

Spec == Init /\ [][Next]_vars

-----------------------------------------------------------------------------
(* doWork fed by two channels *)

TwoChannels == {0, 1}

ChanJsons == {Json({7}, MtfInt(1), {0}, TyAbsent, FALSE)}

InitChan ==
    /\ json \in ChanJsons
    /\ cfg = InitInternal(json)
    /\ channels_ = [ch \in {} |-> NewChannelState]
    /\ now = MaxTime
    /\ last = NoLast
    /\ streak = [ch \in TwoChannels |-> [k \in ClassIds |-> 0]]
    /\ pat = [ch \in TwoChannels |-> -1]
    /\ rt_dets = <<>>
    /\ rt_out = {}
    /\ pc = [s \in Slots |-> Idle]
    /\ seen = {}
    /\ disk = NoDisk
    /\ cleanup = NoCleanup
    /\ mu_path = <<>>
    /\ mu_out = {}

NextChan == DoWorkFrame \/ DoWorkPass

SpecChan == InitChan /\ [][NextChan]_vars

\* the same two channels with time passing, so that deadlines are reached
InitPair ==
    /\ json \in ChanJsons
    /\ cfg = InitInternal(json)
    /\ channels_ = [ch \in {} |-> NewChannelState]
    /\ now = 0
    /\ last = NoLast
    /\ streak = [ch \in TwoChannels |-> [k \in ClassIds |-> 0]]
    /\ pat = [ch \in TwoChannels |-> -1]
    /\ rt_dets = <<>>
    /\ rt_out = {}
    /\ pc = [s \in Slots |-> Idle]
    /\ seen = {}
    /\ disk = NoDisk
    /\ cleanup = NoCleanup
    /\ mu_path = <<>>
    /\ mu_out = {}

\* the frames of the two channels: class 7 or nothing, one size, the open succeeding or
\* throwing
PairDets == {<<>>, <<Det(7)>>}
PairShapes == {AnyShape}
PairResults == {"ok", "open_throw"}

DoWorkPair ==
    \E ch \in InputChannels, dets \in PairDets :
      DoWorkOn(ch, dets, PairShapes, PairResults)

NextPair == DoWorkPair \/ DoWorkPass \/ Tick

SpecPair == InitPair /\ [][NextPair]_vars

----------------------------------------------------------------------------
(* resolveType as a function of the type setting and the detection list *)

TypeDets == SeqsUpTo({Det(c) : c \in TypeDetIds} \cup {NullDet}, MaxDets)

InitType ==
    /\ json \in {Json({}, MtfAbsent, {}, ty, TRUE) : ty \in TypeJsons}
    /\ cfg = InitInternal(json)
    /\ InitCommon

ResolveCall ==
    \E dets \in TypeDets :
      /\ rt_dets' = dets
      /\ rt_out' = {resolveType(cfg, dets)}
      /\ UNCHANGED <<json, cfg, channels_, now, last, streak, pat, pc, seen, hkVars, urlVars>>

NextType == ResolveCall

SpecType == InitType /\ [][NextType]_vars

----------------------------------------------------------------------------
(* doWork called on several execution slots of the hosting pipeline *)

ConcChannels == {0, 1}

\* the positions of doWork that read or write channels_ or a ChannelState
Accessing == {"lookup", "count", "session", "finalize"}

\* the positions of doWork at which mtx_ is held: doWork never locks it
Locked == {}

NextAt(at) ==
    CASE at = "lookup" -> "count"
      [] at = "count" -> "session"
      [] at = "session" -> "finalize"
      [] at = "finalize" -> "push"

\* popInputData returned an object: a frame goes on to channels_[ch], others to the push
SlotPop(s) ==
    /\ pc[s].at = "idle"
    /\ \E ch \in ConcChannels, kind \in {"frame", "eos"} :
         pc' = [pc EXCEPT ![s] = [at |-> IF kind = "frame" THEN "lookup" ELSE "push",
                                  ch |-> ch]]
    /\ UNCHANGED <<json, cfg, channels_, now, last, streak, pat, rt_dets, rt_out, seen, hkVars, urlVars>>

\* the next block of doWork; a block that needs mtx_ waits until no other slot holds it
SlotStep(s) ==
    /\ pc[s].at \in Accessing
    /\ NextAt(pc[s].at) \in Locked =>
          \A t \in Slots \ {s} : pc[t].at \notin Locked
    /\ pc' = [pc EXCEPT ![s].at = NextAt(@)]
    /\ UNCHANGED <<json, cfg, channels_, now, last, streak, pat, rt_dets, rt_out, seen, hkVars, urlVars>>

\* pushOutputData and return
SlotPush(s) ==
    /\ pc[s].at = "push"
    /\ pc' = [pc EXCEPT ![s] = Idle]
    /\ UNCHANGED <<json, cfg, channels_, now, last, streak, pat, rt_dets, rt_out, seen, hkVars, urlVars>>

NextConc == \E s \in Slots : SlotPop(s) \/ SlotStep(s) \/ SlotPush(s)

SpecConc == Init /\ [][NextConc]_vars

----------------------------------------------------------------------------
(* cleanupLoop as a thread of its own over the files under save_dir_ *)

\* the retention settings the housekeeper is run under
CleanJsons ==
    {[retention_days |-> 1] @@ Json({}, MtfAbsent, {}, TyAbsent, TRUE),
     [retention_max_gb |-> 1, cleanup_interval_seconds |-> 10]
        @@ Json({}, MtfAbsent, {}, TyAbsent, TRUE),
     [retention_days |-> 1, retention_max_gb |-> 3, cleanup_interval_seconds |-> 60]
        @@ Json({}, MtfAbsent, {}, TyAbsent, TRUE)}

\* initInternal starts the thread when a retention limit is set and save_dir_ is not empty
Started(c) == (c.retention_days_ > 0 \/ c.retention_max_gb_ > 0) /\ c.save_dir_ # <<>>

InitClean ==
    /\ json \in CleanJsons
    /\ cfg = InitInternal(json)
    /\ disk \in Disks
    /\ now = MaxTime
    /\ cleanup = [NoCleanup EXCEPT !.running = Started(cfg),
                                   !.at = IF Started(cfg) THEN "cycle" ELSE "off"]
    /\ channels_ = [ch \in {} |-> NewChannelState]
    /\ last = NoLast
    /\ streak = [ch \in ChannelIds |-> [k \in ClassIds |-> 0]]
    /\ pat = [ch \in ChannelIds |-> -1]
    /\ rt_dets = <<>>
    /\ rt_out = {}
    /\ pc = [s \in Slots |-> Idle]
    /\ seen = {}
    /\ mu_path = <<>>
    /\ mu_out = {}

\* one iteration of "while (cleanup_running_)" up to the sleep: the try block; the
\* file system fails on at most one file, or in the directory walk, per cycle
CleanupCycle ==
    /\ cleanup.at = "cycle"
    /\ IF ~cleanup.running
       THEN /\ cleanup' = [cleanup EXCEPT !.at = "off"]
            /\ disk' = disk
       ELSE \E af \in (IF cfg.retention_days_ > 0 THEN AgeFaults(disk) ELSE {NoFault}) :
            \E a \in {IF cfg.retention_days_ > 0
                      THEN AgePass(disk, cfg, now, af)
                      ELSE [disk |-> disk, pass |-> NoAge]} :
            \E quota \in {cfg.retention_max_gb_ > 0 /\ ~a.pass.aborted} :
            \E qf \in (IF quota /\ af = NoFault THEN QuotaFaults(a.disk)
                      ELSE {NoFault}) :
            \E order \in (IF quota /\ qf.kind # "dir_throw"
                          THEN SortedOrders(a.disk, Listed(a.disk, qf))
                          ELSE {<<>>}) :
            \E q \in {IF quota THEN QuotaPass(a.disk, cfg, qf, order)
                      ELSE [disk |-> a.disk, pass |-> NoQuota]} :
              /\ disk' = q.disk
              /\ cleanup' = [cleanup EXCEPT !.at = "sleep",
                                            !.age = a.pass, !.quota = q.pass]
    /\ UNCHANGED <<json, cfg, channels_, now, last, streak, pat, rt_dets, rt_out, pc,
                   seen, urlVars>>

\* the sleep of cleanup_interval_seconds_ seconds, cut short when the flag is cleared
CleanupSleep ==
    /\ cleanup.at = "sleep"
    /\ cleanup' = [cleanup EXCEPT !.at = "cycle",
                      !.slept = IF cleanup.running THEN cfg.cleanup_interval_seconds_
                                ELSE 0]
    /\ UNCHANGED <<json, cfg, channels_, now, last, streak, pat, rt_dets, rt_out, pc,
                   seen, disk, urlVars>>

\* ~SaveVideo clears cleanup_running_
Shutdown ==
    /\ cleanup.running
    /\ cleanup' = [cleanup EXCEPT !.running = FALSE]
    /\ UNCHANGED <<json, cfg, channels_, now, last, streak, pat, rt_dets, rt_out, pc,
                   seen, disk, urlVars>>

NextClean == CleanupCycle \/ CleanupSleep \/ Shutdown

SpecClean == InitClean /\ [][NextClean]_vars

-----------------------------------------------------------------------------
(* cleanupLoop and ~SaveVideo: the sleep taken one second at a time *)

\* the disks the stopping housekeeper runs over: all files alike
StopDisks == {d \in Disks : \A f \in Files : d[f] = d[1]}

StopJsons ==
    {[retention_days |-> 1, cleanup_interval_seconds |-> 10]
        @@ Json({}, MtfAbsent, {}, TyAbsent, TRUE)}

InitStop ==
    /\ json \in StopJsons
    /\ cfg = InitInternal(json)
    /\ disk \in StopDisks
    /\ now = MaxTime
    /\ cleanup = [NoCleanup EXCEPT !.running = Started(cfg),
                                   !.at = IF Started(cfg) THEN "cycle" ELSE "off"]
    /\ channels_ = [ch \in {} |-> NewChannelState]
    /\ last = NoLast
    /\ streak = [ch \in ChannelIds |-> [k \in ClassIds |-> 0]]
    /\ pat = [ch \in ChannelIds |-> -1]
    /\ rt_dets = <<>>
    /\ rt_out = {}
    /\ pc = [s \in Slots |-> Idle]
    /\ seen = {}
    /\ mu_path = <<>>
    /\ mu_out = {}

\* variant: the sleep does not look at the flag
SleepGoesOn_NoPoll(c, cl) == cl.i < c.cleanup_interval_seconds_

\* cleanupLoop, the test of the sleeping loop
SleepGoesOn(c, cl) == cl.i < c.cleanup_interval_seconds_ /\ cl.running

\* the test of the sleeping loop: into sleep_for when it passes, else back to the
\* test of the while loop
SleepTest ==
    /\ cleanup.at = "sleep"
    /\ cleanup' = IF SleepGoesOn(cfg, cleanup)
                  THEN [cleanup EXCEPT !.at = "sleep_for"]
                  ELSE [cleanup EXCEPT !.at = "cycle", !.slept = cleanup.i, !.i = 0]
    /\ UNCHANGED <<json, cfg, channels_, now, last, streak, pat, rt_dets, rt_out, pc,
                   seen, disk, urlVars>>

\* sleep_for(seconds(1)) returns and ++i; late counts the returns after the flag
\* was cleared
SleepSecond ==
    /\ cleanup.at = "sleep_for"
    /\ cleanup' = [cleanup EXCEPT !.at = "sleep", !.i = @ + 1,
                                  !.late = IF cleanup.running THEN @ ELSE @ + 1]
    /\ UNCHANGED <<json, cfg, channels_, now, last, streak, pat, rt_dets, rt_out, pc,
                   seen, disk, urlVars>>

\* ~SaveVideo, the join: it returns once cleanupLoop has returned
JoinThread ==
    /\ ~cleanup.running
    /\ cleanup.at = "off"
    /\ ~cleanup.joined
    /\ cleanup' = [cleanup EXCEPT !.joined = TRUE]
    /\ UNCHANGED <<json, cfg, channels_, now, last, streak, pat, rt_dets, rt_out, pc,
                   seen, disk, urlVars>>

NextStop == CleanupCycle \/ SleepTest \/ SleepSecond \/ Shutdown \/ JoinThread

\* the housekeeper thread and the destructor's thread are scheduled, and sleep_for
\* returns
SpecStop ==
    /\ InitStop
    /\ [][NextStop]_vars
    /\ WF_vars(CleanupCycle)
    /\ WF_vars(SleepTest)
    /\ WF_vars(SleepSecond)
    /\ WF_vars(JoinThread)

-----------------------------------------------------------------------------
(* makeUrl as a function of base_file_url_, save_dir_ and the file path *)

\* base_file_url: the key absent, the empty string, without and with a final "/"
UrlBases == {<<>>, FilesUrl, FilesUrl \o <<Sep>>}
UrlDirs == {<<>>, DataDir, DataDir \o <<Sep>>}

UrlJsons ==
    {[Json({}, MtfAbsent, {1}, TyAbsent, TRUE) EXCEPT !.save_dir = d] : d \in UrlDirs}
    \cup {[base_file_url |-> b]
             @@ [Json({}, MtfAbsent, {1}, TyAbsent, TRUE) EXCEPT !.save_dir = d] :
           b \in UrlBases, d \in UrlDirs}

\* the files doWork names, and no file (the video path of a failed open)
UrlPaths ==
    {Path(ch, ts, -1, type, ext) :
        ch \in TwoChannels, ts \in 0..MaxTime, type \in {0, 3}, ext \in {"jpg", "mp4"}}
    \cup {NoPath}

InitUrl ==
    /\ json \in UrlJsons
    /\ cfg = InitInternal(json)
    /\ channels_ = [ch \in {} |-> NewChannelState]
    /\ now = 0
    /\ last = NoLast
    /\ streak = [ch \in ChannelIds |-> [k \in ClassIds |-> 0]]
    /\ pat = [ch \in ChannelIds |-> -1]
    /\ rt_dets = <<>>
    /\ rt_out = {}
    /\ pc = [s \in Slots |-> Idle]
    /\ seen = {}
    /\ disk = NoDisk
    /\ cleanup = NoCleanup
    /\ mu_path = <<>>
    /\ mu_out = {}

\* one call makeUrl(file_abs_path): mu_path is the file, mu_out what the call returns
MakeUrl ==
    \E p \in UrlPaths :
    \E rel \in (IF cfg.base_file_url_ # <<>> /\ cfg.save_dir_ # <<>>
                THEN RelResults ELSE {"ok"}) :
      /\ mu_path' = <<p>>
      /\ mu_out' = {makeUrl(cfg, Str(cfg, p), rel)}
      /\ UNCHANGED <<json, cfg, channels_, now, last, streak, pat, rt_dets, rt_out, pc,
                     seen, hkVars>>

NextUrl == MakeUrl

SpecUrl == InitUrl /\ [][NextUrl]_vars

----------------------------------------------------------------------------
(* Properties *)

Counters(ch) == StateOf(ch).per_class_consecutive_frames

\* the step is a doWork call on a frame of channel ch (Tick and pass-through
\* calls leave channels_ alone and do not report a frame in last)
FrameStep(ch) ==
    /\ last'.op = "frame"
    /\ last'.ch = ch
    /\ ~(last' = last /\ channels_' = channels_)

\* C1: within one open session a class fires at most once: the pending-event list of
\* a channel never holds two events with the same class id, also when the class's
\* counter dropped to zero and climbed back to its threshold during the session
C1_NoClassTwice ==
    \A ch \in DOMAIN channels_ :
      \A i, j \in 1..Len(channels_[ch].pending_events) :
        i # j => channels_[ch].pending_events[i].class_id
                    # channels_[ch].pending_events[j].class_id

\* a class with a pending event re-reached its threshold while its session is open
C1_Witness ==
    \E ch \in DOMAIN channels_ :
      /\ channels_[ch].recording
      /\ last.op = "frame" /\ last.ch = ch
      /\ \E k \in last.blocked :
           \E i \in 1..Len(channels_[ch].pending_events) :
             channels_[ch].pending_events[i].class_id = k

\* C2: at finalize the segment file is deleted iff the pending-event list is empty at
\* that moment; a session with a pending event keeps its segment file
C2_DeleteIffEmpty ==
    last.finalized =>
      /\ (last.removed # {}) <=> (last.flushed = <<>>)
      /\ last.flushed # <<>> => last.removed = {}
      /\ last.removed \subseteq {channels_[last.ch].pending_video_path}

\* a session with pending events was finalized and its segment file kept
C2_Witness ==
    /\ last.finalized
    /\ last.flushed # <<>>
    /\ last.removed = {}
    /\ channels_[last.ch].pending_video_path # NoPath

\* C3: strict consecutive counting: a class fires on a frame only if it qualified in
\* each of the T most recent frames of the channel (T its threshold), a counter is the
\* number of most recent consecutive frames with the class whatever the number of
\* detections per frame, and with T = 3 and class 5 present on frames 1, 2, absent
\* on 3, present on 4, 5, 6, class 5 fires on frame 6 and on no earlier frame
C3_StrictConsecutive ==
    \A ch \in ChannelIds :
      /\ \A k \in ClassIds : Get(Counters(ch), k) = streak[ch][k]
      /\ DOMAIN Counters(ch) \subseteq ClassIds
      /\ (last.op = "frame" /\ last.ch = ch) =>
           /\ \A i \in 1..Len(last.fired) :
                streak[ch][last.fired[i]] >= Need(cfg, last.fired[i])
           /\ pat[ch] \in 1..(Len(Pattern) - 1) =>
                \A i \in 1..Len(last.fired) : last.fired[i] # 5
           /\ pat[ch] = Len(Pattern) => \E i \in 1..Len(last.fired) : last.fired[i] = 5

\* class 5 fired on the sixth frame of the pattern, with threshold 3
C3_Witness ==
    \E ch \in ChannelIds :
      /\ Need(cfg, 5) = 3
      /\ pat[ch] = Len(Pattern)
      /\ last.op = "frame" /\ last.ch = ch
      /\ last.fired = <<5>>
      /\ streak[ch][5] = 3

\* C4: at finalize of a session with pending events postAlarm is called exactly once
\* per pending event, in the order the events were appended, each call with the shared
\* segment path and the event's own snapshot path; whatever the transport answers the
\* pending list is empty afterwards, so no event is reported again
C4_ReportedOnceInOrder ==
    last.finalized =>
      /\ channels_[last.ch].pending_events = <<>>
      /\ channels_[last.ch].pending_video_path.ext = "mp4"
      /\ Len(last.posted) = Len(last.flushed)
      /\ \A i \in 1..Len(last.flushed) :
           last.posted[i].call =
              Post(last.flushed[i].img_path, channels_[last.ch].pending_video_path,
                   last.flushed[i].datetime_str, last.flushed[i].type)
      /\ \A i, j \in 1..Len(last.posted) :
           i # j => last.posted[i].call.imgPath # last.posted[j].call.imgPath

\* a session with two pending events was finalized and both were reported
C4_Witness ==
    /\ last.finalized
    /\ Len(last.flushed) = 2
    /\ Len(last.posted) = 2
    /\ last.posted[1].sent

\* C5: a segment is opened only on a channel that is not recording, and a class firing
\* while the channel records only appends its event: deadline, segment path and locked
\* width, height and fps stay, no file is opened, and the writer stays open unless that
\* same call reaches the deadline and finalizes the session
C5_FiringKeepsSession ==
    [][\A ch \in ChannelIds :
         FrameStep(ch) =>
           /\ last'.opened # {} => ~StateOf(ch).recording
           /\ channels_'[ch].recording => channels_'[ch].writer
           /\ (StateOf(ch).recording /\ last'.fired # <<>>) =>
                /\ last'.opened = {}
                /\ ~last'.openFailed
                /\ channels_'[ch].record_end_tp = channels_[ch].record_end_tp
                /\ channels_'[ch].pending_video_path = channels_[ch].pending_video_path
                /\ channels_'[ch].width = channels_[ch].width
                /\ channels_'[ch].height = channels_[ch].height
                /\ channels_'[ch].fps = channels_[ch].fps
                /\ LET old == channels_[ch].pending_events
                       new == IF last'.finalized THEN last'.flushed
                              ELSE channels_'[ch].pending_events
                   IN  /\ Len(new) = Len(old) + Len(last'.fired)
                       /\ SubSeq(new, 1, Len(old)) = old
                       /\ \A i \in 1..Len(last'.fired) :
                            new[Len(old) + i].class_id = last'.fired[i]
                /\ ~last'.finalized =>
                     channels_'[ch].recording /\ channels_'[ch].writer
      ]_vars

\* a second class fired into a session that was already open
C5_Witness ==
    \E ch \in DOMAIN channels_ :
      /\ channels_[ch].recording
      /\ last.op = "frame" /\ last.ch = ch
      /\ last.fired # <<>>
      /\ last.opened = {}
      /\ Len(channels_[ch].pending_events) = Len(last.fired) + 1

\* C6: when the recording cannot be opened on a triggering frame of an idle channel,
\* postAlarm is called at once, once per newly fired class, with an empty video path;
\* the channel stays idle without writer and nothing is pending or suppressed
C6_OpenFailure ==
    (last.op = "frame" /\ last.openFailed) =>
      /\ ~channels_[last.ch].recording
      /\ ~channels_[last.ch].writer
      /\ channels_[last.ch].pending_events = <<>>
      /\ channels_[last.ch].suppressed_classes = {}
      /\ last.opened = {}
      /\ ~last.finalized
      /\ last.fired # <<>>
      /\ Len(last.posted) = Len(last.fired)
      /\ \A i \in 1..Len(last.posted) : last.posted[i].call.videoPath = NoPath

\* C7: finalize (and a failed open) leaves the counters as the counting block set them,
\* and a class whose counter is at or above its threshold does not fire: it fires only
\* on the frame that takes its counter from threshold - 1 to the threshold
C7_FinalizeKeepsCounters ==
    [][\A ch \in ChannelIds :
         FrameStep(ch) =>
           \A k \in ClassIds :
             /\ Get(Counters(ch), k) >= Need(cfg, k) =>
                  \A i \in 1..Len(last'.fired) : last'.fired[i] # k
             /\ (\E i \in 1..Len(last'.fired) : last'.fired[i] = k) =>
                  Get(Counters(ch), k) = Need(cfg, k) - 1
             /\ (last'.finalized \/ last'.openFailed) =>
                  Get(channels_'[ch].per_class_consecutive_frames, k) =
                     IF streak'[ch][k] > 0 THEN Get(Counters(ch), k) + 1 ELSE 0
      ]_vars

\* a session was finalized while a class present in the frame is above its threshold
C7_Witness ==
    /\ last.finalized
    /\ \E k \in ClassIds :
         /\ Get(Counters(last.ch), k) > Need(cfg, k)
         /\ streak[last.ch][k] > 0
         /\ \E i \in 1..Len(last.flushed) : last.flushed[i].class_id = k

\* C8: a doWork call on an object of a channel whose session has reached its deadline,
\* an end-of-stream frame included, leaves the channel finalized: writer closed, no
\* longer recording, the pending events handed to postAlarm
C8_FinalizedAfterDeadline ==
    [][\A ch \in DOMAIN channels_ :
         (/\ last'.ch = ch
          /\ last'.op \in {"frame", "eos"}
          /\ last' # last
          /\ channels_[ch].recording
          /\ now >= channels_[ch].record_end_tp)
         => (/\ ~channels_'[ch].recording
             /\ ~channels_'[ch].writer
             /\ channels_'[ch].pending_events = <<>>
             /\ last'.finalized)
      ]_vars

\* C9: no two execution slots are inside the blocks of doWork that read or write
\* channels_ or a ChannelState at the same time
C9_Serialized ==
    \A s, t \in Slots :
      s # t => ~(pc[s].at \in Accessing /\ pc[t].at \in Accessing)

\* C10: with a fixed integer type configured, resolveType returns that integer for
\* every detection list
C10_FixedTypeWins ==
    (json.type.kind = "int" /\ rt_out # {}) => rt_out = {json.type.int}

\* a fixed type was returned for a list whose first valid detection has another class
C10_Witness ==
    /\ json.type.kind = "int"
    /\ rt_out = {json.type.int}
    /\ FirstValid(rt_dets) # {}
    /\ FirstValid(rt_dets) # rt_out
    /\ Len(rt_dets) = 2

\* C11: in mapping mode (no fixed type, non-empty mapping) resolveType returns the mapped
\* value of the first detection in list order with id >= 0 that is a mapping key, even
\* after an unmapped valid detection; with no such detection the raw id of the first
\* detection with id >= 0; with no valid detection 0
C11_MappingMode ==
    (json.type.kind = "map" /\ DOMAIN json.type.map # {} /\ rt_out # {}) =>
      LET valid == {i \in 1..Len(rt_dets) :
                      ~rt_dets[i].isNull /\ rt_dets[i].mClassify >= 0}
          keyed == {i \in valid : rt_dets[i].mClassify \in DOMAIN json.type.map}
          lowest(I) == CHOOSE i \in I : \A k \in I : i <= k
      IN  rt_out = {IF keyed # {} THEN json.type.map[rt_dets[lowest(keyed)].mClassify]
                    ELSE IF valid # {} THEN rt_dets[lowest(valid)].mClassify
                    ELSE 0}

\* mapping {7 -> 2}: class 7 listed after the unmapped valid class 9 gave type 2
C11_Witness ==
    /\ json.type.kind = "map"
    /\ DOMAIN json.type.map = {7}
    /\ rt_dets = <<Det(9), Det(7)>>
    /\ rt_out = {2}

\* C12: with no fixed type and no mapping, in raw-class-id mode and in the unconfigured
\* mode alike, resolveType returns the id of the first detection in list order with
\* id >= 0 and 0 when there is none; the two modes agree on every detection list
C12_RawAndDefaultMode ==
    (/\ json.type.kind # "int"
     /\ ~(json.type.kind = "map" /\ DOMAIN json.type.map # {})
     /\ rt_out # {}) =>
      LET valid == {i \in 1..Len(rt_dets) :
                      ~rt_dets[i].isNull /\ rt_dets[i].mClassify >= 0}
          first == CHOOSE i \in valid : \A k \in valid : i <= k
      IN  /\ rt_out = {IF valid # {} THEN rt_dets[first].mClassify ELSE 0}
          /\ resolveType(InitInternal(Json({}, MtfAbsent, {}, TyStr("class_id"), TRUE)),
                         rt_dets)
               = resolveType(InitInternal(Json({}, MtfAbsent, {}, TyAbsent, TRUE)),
                             rt_dets)

\* raw-class-id mode skipped an invalid detection and returned the next one's id
C12_Witness ==
    /\ json.type.kind = "string"
    /\ cfg.use_class_id_type_
    /\ rt_dets = <<Det(-1), Det(9)>>
    /\ rt_out = {9}

\* the segment and snapshot files now under save_dir_
Targets == {f \in DOMAIN disk : IsTarget(disk[f])}

\* C13: when a quota pass during which every file stayed readable and deletable has
\* ended, the segment and snapshot files left under save_dir_ total at most the quota,
\* or none of them is left
C13_QuotaReached ==
    (/\ cleanup.quota.ran
     /\ cleanup.quota.fault.kind \in {"none", "vanished", "vanished_at_delete"}) =>
      \/ SumSizes(disk, Targets) <= cfg.retention_max_gb_
      \/ Targets = {}

\* C14: a quota pass deletes oldest-first, deletes nothing when the scanned total is
\* within the quota, deletes only while the running total exceeds the quota, and ends
\* with the scanned total less the sizes of the files it deleted, not below zero
C14_OldestFirstRunningTotal ==
    (/\ cleanup.quota.ran
     /\ cleanup.quota.fault.kind \in {"none", "vanished", "vanished_at_delete",
                                      "size_unreadable_at_delete"}) =>
      LET q == cleanup.quota
          size(i) == q.before[q.deleted[i]].size
          gone(n) == SumSizes(q.before, {q.deleted[i] : i \in 1..n})
      IN  /\ \A i \in 1..Len(q.deleted) : \A k \in 1..Len(q.files) :
                q.before[q.files[k]].mtime < q.before[q.deleted[i]].mtime
                   => \E m \in 1..(i - 1) : q.deleted[m] = q.files[k]
          /\ q.scanned <= cfg.retention_max_gb_ => q.deleted = <<>>
          /\ \A i \in 1..Len(q.deleted) : q.scanned - gone(i - 1) > cfg.retention_max_gb_
          /\ q.total_bytes = Max(0, q.scanned - gone(Len(q.deleted)))

\* C15 as stated: every message sent, at finalize or right after a failed open, has the
\* selected one of safetyUrl / brakeUrl populated and the other one empty
C15_ExactlyOneUrl ==
    \A i \in 1..Len(last.posted) :
      last.posted[i].sent =>
        LET m == last.posted[i].msg
            brake == Has(json, "video_url_field") /\ json.video_url_field = "brakeUrl"
        IN  /\ (IF brake THEN m.brakeUrl ELSE m.safetyUrl) # <<>>
            /\ (IF brake THEN m.safetyUrl ELSE m.brakeUrl) = <<>>

\* C15 amended: the field video_url_field does not select (brakeUrl when the setting is
\* absent or invalid) is empty in every message sent; the selected field is populated
\* with the segment's URL in the messages sent at finalize; in the messages sent right
\* after a failed open the video path is empty, so the selected field is empty too when
\* no base URL is configured and is the bare base URL ending in "/" otherwise
C15_AtMostOneUrl ==
    \A i \in 1..Len(last.posted) :
      last.posted[i].sent =>
        LET m == last.posted[i].msg
            sel == IF Has(json, "video_url_field") /\ json.video_url_field = "brakeUrl"
                   THEN m.brakeUrl ELSE m.safetyUrl
            oth == IF Has(json, "video_url_field") /\ json.video_url_field = "brakeUrl"
                   THEN m.safetyUrl ELSE m.brakeUrl
        IN  /\ oth = <<>>
            /\ last.finalized =>
                 /\ sel # <<>>
                 /\ sel[Len(sel)] = Below(channels_[last.ch].pending_video_path)
            /\ last.openFailed =>
                 sel = IF ~Has(json, "base_file_url") THEN <<>>
                       ELSE IF json.base_file_url[Len(json.base_file_url)] = Sep
                       THEN json.base_file_url
                       ELSE json.base_file_url \o <<Sep>>

\* a message was sent right after a failed open with both URL fields empty
C15_Witness ==
    /\ last.openFailed
    /\ last.posted # <<>>
    /\ last.posted[1].sent
    /\ last.posted[1].msg.safetyUrl = <<>>
    /\ last.posted[1].msg.brakeUrl = <<>>
    /\ last.posted[1].msg.imgUrl # <<>>

C17_KeysAreObservedIds ==
    DOMAIN channels_ = seen \cup (IF last.op = "eos" THEN {last.ch} ELSE {})

\* C17: the keys of channels_ are the channel ids seen on the frames that came in and
\* were not end-of-stream; a key is added by the first such frame of its channel and no
\* key is ever removed
C17_KeysAreFrameIds ==
    [][/\ DOMAIN channels_' = seen'
       /\ DOMAIN channels_ \subseteq DOMAIN channels_'
       /\ \A ch \in DOMAIN channels_' \ DOMAIN channels_ :
            last'.op = "frame" /\ last'.ch = ch]_vars

\* both channels have state, and the last object was an end-of-stream frame
C17_Witness ==
    /\ DOMAIN channels_ = TwoChannels
    /\ seen = TwoChannels
    /\ last.op = "eos"

\* C18: when a session opens, the writer is opened at the width and height of the
\* triggering frame and at its frame rate; 25 fps is used only when the frame carries
\* no usable rate
C18_WriterAtFrameShape ==
    (last.op = "frame" /\ last.opened # {}) =>
        LET st == channels_[last.ch]
            rate == last.frame[3]
        IN  /\ st.width = last.frame[1]
            /\ st.height = last.frame[2]
            /\ st.fps = IF rate[2] # 0 THEN Max(1, rate[1] \div Max(1, rate[2]))
                        ELSE DefaultFps

\* C19: without a base URL makeUrl returns the local path as it is; with a base URL it
\* returns the base URL, exactly one "/", then the file path relative to save_dir_,
\* whether or not the base URL ends with "/"
C19_UrlOfPath ==
    \A i \in DOMAIN mu_path :
        LET p == mu_path[i]
            base == cfg.base_file_url_
            bare == IF base # <<>> /\ base[Len(base)] = Sep
                    THEN SubSeq(base, 1, Len(base) - 1) ELSE base
            below == IF p = NoPath THEN <<>> ELSE <<Below(p)>>
        IN  mu_out = {IF base = <<>> THEN Str(cfg, p) ELSE bare \o <<Sep>> \o below}

\* C20: in a cycle in which the file system failed on one file (its size or last-write
\* time unreadable, its removal failing, the file vanishing), only that file is skipped:
\* the age pass removes every other file older than the cutoff and the quota pass still
\* runs; the quota pass goes on over the other files until they are within the quota or
\* each of them has been tried; and the loop sleeps the configured interval before its
\* next cycle
C20_OnlyThatFileSkipped ==
    LET a == cleanup.age
        q == cleanup.quota
        cutoff == now - cfg.retention_days_
        others == {f \in DOMAIN disk : IsTarget(disk[f]) /\ f # q.fault.file}
    IN  /\ (a.ran /\ a.fault.kind \notin {"none", "dir_throw"}) =>
              /\ ~a.aborted
              /\ \A f \in Files \ {a.fault.file} :
                    (IsTarget(a.before[f]) /\ a.before[f].mtime < cutoff)
                       => f \in a.deleted
              /\ q.ran = (cfg.retention_max_gb_ > 0)
        /\ (q.ran /\ q.fault.kind \notin {"none", "dir_throw"}) =>
              /\ ~q.aborted
              /\ \/ SumSizes(disk, others) <= cfg.retention_max_gb_
                 \/ \A k \in 1..Len(q.files) :
                       q.files[k] # q.fault.file
                          => \E i \in 1..Len(q.attempted) : q.attempted[i] = q.files[k]
        /\ ((a.ran \/ q.ran) /\ cleanup.at = "cycle" /\ cleanup.running) =>
              cleanup.slept = cfg.cleanup_interval_seconds_

\* C21: once ~SaveVideo has cleared cleanup_running_, no retention cycle is started, at
\* most the one sleep_for in progress is finished, and cleanupLoop returns so that the
\* join completes
C21_StopsWithinOneStep ==
    /\ [](~cleanup.running => cleanup.late <= 1)
    /\ [][~cleanup.running => (cleanup'.age = cleanup.age /\ cleanup'.quota = cleanup.quota
                               /\ disk' = disk)]_vars
    /\ (~cleanup.running) ~> cleanup.joined

\* the flag was cleared during a sleep_for, which was finished, and the thread was joined
\* before the interval had passed
C21_Witness ==
    /\ cleanup.joined
    /\ cleanup.late = 1
    /\ cleanup.slept > 0
    /\ cleanup.slept < cfg.cleanup_interval_seconds_

\* C22: the newly reached classes of a frame are listed in ascending order of class id,
\* whatever the order of the detections, so the class that names the base snapshot and
\* comes first in pending_events is the least firing id
C22_FiredInAscendingOrder ==
    \A i, j \in 1..Len(last.fired) : i < j => last.fired[i] < last.fired[j]

\* a class id that may produce an event: not negative, and in trigger_classes_ when that
\* set is not empty
Wanted(cid) == cid >= 0 /\ (cfg.trigger_classes_ = {} \/ cid \in cfg.trigger_classes_)

\* C23: every pending event, every event reported at finalize and every class reported at
\* once on a failed open has a class id that is not negative and passes the trigger
\* filter, and a consecutive-hit counter is incremented only for such a class
C23_OnlyQualifyingClasses ==
    /\ [](/\ \A ch \in DOMAIN channels_ :
               \A i \in 1..Len(channels_[ch].pending_events) :
                 Wanted(channels_[ch].pending_events[i].class_id)
          /\ \A i \in 1..Len(last.fired) : Wanted(last.fired[i])
          /\ \A i \in 1..Len(last.flushed) : Wanted(last.flushed[i].class_id))
    /\ [][\A ch \in DOMAIN channels_' : \A k \in DOMAIN channels_'[ch].per_class_consecutive_frames :
            channels_'[ch].per_class_consecutive_frames[k] > Get(Counters(ch), k)
              => Wanted(k)]_vars

\* with a trigger filter set, a class fired and its event is pending
C23_Witness ==
    /\ cfg.trigger_classes_ # {}
    /\ last.op = "frame"
    /\ last.fired # <<>>
    /\ last.opened # {}
    /\ channels_[last.ch].pending_events # <<>>

\* C24: a recording channel has at least one pending event, so every finalize flushes at
\* least one event and removes no segment file
C24_RecordingHasPendingEvent ==
    /\ \A ch \in DOMAIN channels_ :
         channels_[ch].recording => channels_[ch].pending_events # <<>>
    /\ last.finalized => (last.flushed # <<>> /\ last.removed = {})

\* a session that went on over a frame without firing class was finalized on a later
\* frame, with its events flushed
C24_Witness ==
    /\ last.op = "frame"
    /\ last.finalized
    /\ last.fired = <<>>
    /\ last.flushed # <<>>
    /\ ~channels_[last.ch].recording

\* C25: in every state of a channel the suppressed classes are the class ids of the
\* pending events, and a channel that is not recording has no pending event, no
\* suppressed class and no writer
C25_SuppressedMatchesPending ==
    \A ch \in DOMAIN channels_ :
      /\ channels_[ch].suppressed_classes =
           {channels_[ch].pending_events[i].class_id :
              i \in 1..Len(channels_[ch].pending_events)}
      /\ ~channels_[ch].recording =>
           /\ channels_[ch].pending_events = <<>>
           /\ channels_[ch].suppressed_classes = {}
           /\ ~channels_[ch].writer

\* C26: a doWork call on a frame of channel ch leaves the state of every other channel as
\* it was and creates no entry for it, and what the call opens, removes, flushes and
\* reports belongs to channel ch
C26_ChannelsIndependent ==
    [][\A ch \in TwoChannels :
         FrameStep(ch) =>
           /\ \A other \in TwoChannels \ {ch} :
                /\ other \in DOMAIN channels_' <=> other \in DOMAIN channels_
                /\ other \in DOMAIN channels_ => channels_'[other] = channels_[other]
           /\ \A p \in last'.opened \cup last'.removed : p.ch = ch
           /\ \A i \in 1..Len(last'.flushed) : last'.flushed[i].img_path.ch = ch
           /\ \A i \in 1..Len(last'.posted) : last'.posted[i].call.imgPath.ch = ch
      ]_vars

\* a frame of one channel opened a session while the session of the other channel, past
\* its deadline, stayed open with its events pending
C26_Witness ==
    \E ch \in TwoChannels, other \in TwoChannels :
      /\ other # ch
      /\ last.op = "frame" /\ last.ch = ch
      /\ last.opened # {}
      /\ other \in DOMAIN channels_
      /\ channels_[other].recording
      /\ channels_[other].pending_events # <<>>
      /\ now >= channels_[other].record_end_tp

\* C27: a session ends only in a doWork call on a frame of its channel whose now_tp is at
\* or after the deadline, the deadline is the clock at the open plus record_seconds_ with
\* record_seconds_ at least 1, and the frame that opens a session does not finalize it
C27_NotBeforeDeadline ==
    /\ [](cfg.record_seconds_ >= 1)
    /\ [][\A ch \in ChannelIds :
            /\ (StateOf(ch).recording /\ ~channels_'[ch].recording) =>
                 /\ FrameStep(ch)
                 /\ last'.finalized
                 /\ now >= channels_[ch].record_end_tp
            /\ (FrameStep(ch) /\ last'.finalized) =>
                 /\ StateOf(ch).recording
                 /\ last'.opened = {}
                 /\ now >= channels_[ch].record_end_tp
            /\ (FrameStep(ch) /\ last'.opened # {}) =>
                 /\ channels_'[ch].recording
                 /\ channels_'[ch].record_end_tp = now' + cfg.record_seconds_
                 /\ now < channels_'[ch].record_end_tp
         ]_vars

\* a session of two seconds was finalized by a frame processed right at its deadline
C27_Witness ==
    /\ last.op = "frame"
    /\ last.finalized
    /\ cfg.record_seconds_ = 2
    /\ now = channels_[last.ch].record_end_tp

====
